---- MODULE Spec2Model ----
(***************************************************************************)
(* A model of jcallea1/fordpass-api: the two-stage token cache of          *)
(* FordPassAPI (src/fordpass_api.py) and the change-detection loop of      *)
(* BatteryMonitor (src/battery_monitor.py).                                *)
(*                                                                         *)
(* Python values: None is the empty tuple <<>> and a present value v is    *)
(* <<v>>.  A function that talks to the network or the file system is a    *)
(* set-valued operator: the set of the outcomes it can have, one per       *)
(* answer of the environment.  Time is time.time() in seconds; HTTP calls  *)
(* take no model time, the sleeps of the loop do.                          *)
(***************************************************************************)
EXTENDS Integers, Sequences, FiniteSets, TLC

VARIABLES
    now,               \* time.time()
    pc,                \* where BatteryMonitor.run is
    interval,          \* self.interval
    ford_token,        \* self.ford_token
    autonomic_token,   \* self.autonomic_token
    token_expiration,  \* self.token_expiration
    last_range,        \* self.last_range
    last_charge,       \* self.last_charge
    file,              \* the file at self.config_file
    cyc,               \* history: what the last check_battery did
    call,              \* history: what the last get_auth_token did
    world,             \* the answers the environment can give in this run
    proc,              \* history: the readings this process has obtained so far
    callers,           \* threads inside get_auth_token on the shared FordPassAPI
    interrupted        \* history: a KeyboardInterrupt was delivered to this process

vars == <<now, pc, interval, ford_token, autonomic_token, token_expiration,
          last_range, last_charge, file, cyc, call, world, proc, callers,
          interrupted>>

----------------------------------------------------------------------------
(* Bounds of the model and constants of the program *)

MaxTime == 240
NumCallers == 2
MaxAuthTime == 420
MaxRangeKm10 == 3000
MaxLiveTime == 150

DefaultInterval == 60
FaultDelay == 30
FordTokenValidity == 300
DefaultExpiresIn == 3600
ExpiryMargin == 60
KmToMilesMicro == 621371

None == <<>>
Some(v) == <<v>>
Val(o) == o[1]

\* --interval is any int; time.sleep raises ValueError on a negative one
Intervals == {DefaultInterval, 0 - 5}

\* expires_in of a token-exchange answer (None: the key is missing)
ExpiresInValues == {None, Some(90), Some(150)}

\* metrics.xevBatteryRange.value in tenths of a km, xevBatteryActualStateOfCharge.value in tenths of a percent
RangeKm10Values == {None, Some(1000), Some(1020)}
Charge10Values == {None, Some(805), Some(815)}

----------------------------------------------------------------------------
(* Python's round(): to the nearest integer, a tie to the even one *)

RoundHalfEven(num, den) ==
    LET q == num \div den
        r == num % den
    IN  IF 2 * r < den THEN q
        ELSE IF 2 * r > den THEN q + 1
        ELSE IF q % 2 = 0 THEN q ELSE q + 1

Abs(x) == IF x < 0 THEN 0 - x ELSE x

----------------------------------------------------------------------------
(* FordPassAPI: the token cache *)

ApiState(ft, at, exp) == [ford_token |-> ft, autonomic_token |-> at, token_expiration |-> exp]

\* a token is known by the request that issued it
FordTok(t) == [kind |-> "ford", at |-> t, exp |-> t + FordTokenValidity, sub |-> None]
AutoTok(t, e, sub) == [kind |-> "autonomic", at |-> t, exp |-> t + e - ExpiryMargin, sub |-> sub]

Req(kind, tok) == [kind |-> kind, tok |-> tok]

\* answers of the primary-auth endpoint: 200 with status 200 and a token, the
\* same without access_token, 200 with another status, non-200, no answer
AllPrimaryResponses == {"ok", "ok_no_token", "app_error", "http_error", "transport"}

\* answers of the token-exchange endpoint
ExchangeResponse(k, e) == [kind |-> k, expires_in |-> e]

AllExchangeResponses ==
    {ExchangeResponse(k, e) : k \in {"ok", "ok_no_token"}, e \in ExpiresInValues}
    \cup {ExchangeResponse(k, None) : k \in {"http_error", "transport"}}

PrimaryResponses == world.primary
ExchangeResponses == world.exchange

\* a get_ford_token that drops the cached tokens when the endpoint refuses
FordTokenOutcome_ClearOnFailure(st, t, resp) ==
    IF resp = "ok"
    THEN [st |-> ApiState(Some(FordTok(t)), st.autonomic_token, t + FordTokenValidity),
          ret |-> Some(FordTok(t)), raised |-> FALSE, reqs |-> <<Req("primary", None)>>, primary |-> resp]
    ELSE IF resp = "ok_no_token"
    THEN [st |-> ApiState(None, st.autonomic_token, t + FordTokenValidity),
          ret |-> None, raised |-> FALSE, reqs |-> <<Req("primary", None)>>, primary |-> resp]
    ELSE [st |-> ApiState(None, None, 0),
          ret |-> None, raised |-> TRUE, reqs |-> <<Req("primary", None)>>, primary |-> resp]

\* lines 51-73: the answer of the primary-auth endpoint
FordTokenOutcome(st, t, resp) ==
    IF resp = "ok"
    THEN [st |-> ApiState(Some(FordTok(t)), st.autonomic_token, t + FordTokenValidity),
          ret |-> Some(FordTok(t)), raised |-> FALSE, reqs |-> <<Req("primary", None)>>, primary |-> resp]
    ELSE IF resp = "ok_no_token"
    THEN [st |-> ApiState(None, st.autonomic_token, t + FordTokenValidity),
          ret |-> None, raised |-> FALSE, reqs |-> <<Req("primary", None)>>, primary |-> resp]
    ELSE [st |-> st, ret |-> None, raised |-> TRUE, reqs |-> <<Req("primary", None)>>, primary |-> resp]

\* line 39: the cached primary token is served
FordCached(st, t) == st.ford_token # None /\ t < st.token_expiration

GetFordToken(st, t) ==
    IF FordCached(st, t)
    THEN {[st |-> st, ret |-> st.ford_token, raised |-> FALSE, reqs |-> <<>>, primary |-> "cached"]}
    ELSE {FordTokenOutcome(st, t, resp) : resp \in PrimaryResponses}

ExpiresIn(resp) == IF resp.expires_in = None THEN DefaultExpiresIn ELSE Val(resp.expires_in)

ExchangeOutcome(f, t, resp) ==
    LET reqs == Append(f.reqs, Req("exchange", f.ret))
        e == ExpiresIn(resp)
    IN  IF resp.kind = "ok"
        THEN [st |-> ApiState(f.st.ford_token, Some(AutoTok(t, e, f.ret)), t + e - ExpiryMargin),
              ret |-> Some(AutoTok(t, e, f.ret)), raised |-> FALSE, reqs |-> reqs, primary |-> f.primary]
        ELSE IF resp.kind = "ok_no_token"
        THEN [st |-> ApiState(f.st.ford_token, None, t + e - ExpiryMargin),
              ret |-> None, raised |-> FALSE, reqs |-> reqs, primary |-> f.primary]
        ELSE [st |-> f.st, ret |-> None, raised |-> TRUE, reqs |-> reqs, primary |-> f.primary]

\* lines 80-113: get_ford_token, then the exchange
RefreshAutonomicToken(st, t) ==
    UNION {IF f.raised
           THEN {f}
           ELSE {ExchangeOutcome(f, t, resp) : resp \in ExchangeResponses}
           : f \in GetFordToken(st, t)}

\* a get_autonomic_token that never answers from its cache
GetAutonomicToken_NoCache(st, t) == RefreshAutonomicToken(st, t)

\* line 77: the cached exchange token is served
AutonomicCached(st, t) == st.autonomic_token # None /\ t < st.token_expiration

GetAutonomicToken(st, t) ==
    IF AutonomicCached(st, t)
    THEN {[st |-> st, ret |-> st.autonomic_token, raised |-> FALSE, reqs |-> <<>>, primary |-> "none"]}
    ELSE RefreshAutonomicToken(st, t)

GetAuthToken(st, t) == GetAutonomicToken(st, t)

----------------------------------------------------------------------------
(* FordPassAPI: telemetry *)

\* answers of the telemetry endpoint: a failure, a body that is not a status
\* document, or a status document with its two battery metrics
TelemetryResponse(k, r, c) == [kind |-> k, range_km10 |-> r, charge10 |-> c]

AllTelemetryResponses ==
    {TelemetryResponse(k, None, None) : k \in {"http_error", "transport", "malformed"}}
    \cup {TelemetryResponse("ok", r, c) : r \in RangeKm10Values, c \in Charge10Values}

TelemetryResponses == world.telemetry

\* a get_vehicle_status that drops the cached exchange token when its GET fails
VehicleStatusOutcome_InvalidateOnReject(a, resp) ==
    LET reqs == Append(a.reqs, Req("telemetry", a.ret))
    IN  IF resp.kind \in {"http_error", "transport"}
        THEN [st |-> ApiState(a.st.ford_token, None, 0), raised |-> TRUE, cause |-> resp.kind,
              status |-> resp, reqs |-> reqs, auth |-> a]
        ELSE [st |-> a.st, raised |-> FALSE, cause |-> "none", status |-> resp, reqs |-> reqs, auth |-> a]

\* lines 157-181: the GET with the bearer token and its answer
VehicleStatusOutcome(a, resp) ==
    LET reqs == Append(a.reqs, Req("telemetry", a.ret))
    IN  IF resp.kind \in {"http_error", "transport"}
        THEN [st |-> a.st, raised |-> TRUE, cause |-> resp.kind, status |-> resp, reqs |-> reqs, auth |-> a]
        ELSE [st |-> a.st, raised |-> FALSE, cause |-> "none", status |-> resp, reqs |-> reqs, auth |-> a]

NoStatus == [kind |-> "none", range_km10 |-> None, charge10 |-> None]

\* a get_vehicle_status that sends its GET even when get_auth_token raised
GetVehicleStatus_SendAnyway(st, t) ==
    {VehicleStatusOutcome(a, resp) : resp \in TelemetryResponses, a \in GetAuthToken(st, t)}

\* lines 153-181: get_auth_token, whose exception ends the call, then the GET
GetVehicleStatus(st, t) ==
    UNION {IF a.raised
           THEN {[st |-> a.st, raised |-> TRUE, cause |-> "auth", status |-> NoStatus, reqs |-> a.reqs, auth |-> a]}
           ELSE {VehicleStatusOutcome(a, resp) : resp \in TelemetryResponses}
           : a \in GetAuthToken(st, t)}

\* a conversion that cuts the fraction off instead of rounding
RangeMiles_Truncating(range_km10) ==
    ((IF range_km10 = None THEN 0 ELSE Val(range_km10)) * KmToMilesMicro) \div (10 * 1000000)

\* round((value or 0) * 0.621371), the value in tenths of a km
RangeMiles(range_km10) ==
    RoundHalfEven((IF range_km10 = None THEN 0 ELSE Val(range_km10)) * KmToMilesMicro, 10 * 1000000)

NoInfo == [ev_battery_actual_charge |-> None, ev_battery_range_km |-> None, ev_battery_range_miles |-> None]

BatteryInfo(status) ==
    [ev_battery_actual_charge |-> status.charge10,
     ev_battery_range_km |-> status.range_km10,
     ev_battery_range_miles |-> Some(RangeMiles(status.range_km10))]

\* is_str: the return value is the "Unable to retrieve ..." string, not the dict
BatteryStatusOutcome(v) ==
    IF v.raised
    THEN [st |-> v.st, is_str |-> TRUE, cause |-> v.cause, info |-> NoInfo, status |-> v.status, reqs |-> v.reqs, auth |-> v.auth]
    ELSE IF v.status.kind = "malformed"
    THEN [st |-> v.st, is_str |-> TRUE, cause |-> "malformed", info |-> NoInfo, status |-> v.status, reqs |-> v.reqs, auth |-> v.auth]
    ELSE [st |-> v.st, is_str |-> FALSE, cause |-> "none", info |-> BatteryInfo(v.status), status |-> v.status, reqs |-> v.reqs, auth |-> v.auth]

GetBatteryStatus(st, t) == {BatteryStatusOutcome(v) : v \in GetVehicleStatus(st, t)}

----------------------------------------------------------------------------
(* BatteryMonitor: the state file *)

FileAbsent == [kind |-> "absent", last_range |-> None, last_charge |-> None, last_update |-> 0]
FileCorrupt == [kind |-> "corrupt", last_range |-> None, last_charge |-> None, last_update |-> 0]
FileRecord(lr, lc, t) == [kind |-> "record", last_range |-> lr, last_charge |-> lc, last_update |-> t]

\* a load_state that reads back the range alone
LoadState_RangeOnly(f) ==
    IF f.kind = "record" THEN <<f.last_range, None>> ELSE <<None, None>>

\* load_state, from last_range = last_charge = None: <<last_range, last_charge>>
LoadState(f) ==
    IF f.kind = "record" THEN <<f.last_range, f.last_charge>> ELSE <<None, None>>

\* what the file system does to a save: the write completes, open() fails, or
\* the write fails after open(..., 'w') truncated the file
AllSaveOutcomes == {"ok", "open_fail", "write_fail"}

SaveOutcomes == world.save

SaveState(f, lr, lc, t, outcome) ==
    IF outcome = "ok" THEN FileRecord(lr, lc, t)
    ELSE IF outcome = "open_fail" THEN f
    ELSE FileCorrupt

Save(lr, lc, t, outcome) == [last_range |-> lr, last_charge |-> lc, last_update |-> t, outcome |-> outcome]

----------------------------------------------------------------------------
(* BatteryMonitor: notification and check_battery *)

\* the backend shows it, reports it did not, or raises (caught: returns False)
AllNotifierOutcomes == {"shown", "not_shown", "error"}

NotifierOutcomes == world.notifier

ShowNotification(outcome) == outcome = "shown"

\* the unit the message puts after the amount of a field
Unit(field) == IF field = "Range" THEN " miles" ELSE "%"

\* a clause that reports every change as an increase
Clause_AlwaysIncreased(field, new, old) ==
    [field |-> field, direction |-> "increased", amount |-> Abs(new - old), unit |-> Unit(field)]

\* lines 221-223 and 226-228: "<field> has <direction> by <amount><unit>. "
Clause(field, new, old) ==
    [field |-> field,
     direction |-> IF new - old > 0 THEN "increased" ELSE "decreased",
     amount |-> Abs(new - old),
     unit |-> Unit(field)]

ChangeMessage(cr, cc, lr, lc) ==
    (IF cr # lr THEN <<Clause("Range", cr, lr)>> ELSE <<>>)
    \o (IF cc # lc THEN <<Clause("Charge", cc, lc)>> ELSE <<>>)

Notification(cr, cc, lr, lc, outcome) ==
    [title |-> "Ford EV Battery Update", range |-> cr, charge |-> cc,
     changes |-> ChangeMessage(cr, cc, lr, lc),
     outcome |-> outcome, returned |-> ShowNotification(outcome)]

\* what get_battery_status returned to check_battery: the battery_info dict
\* or the "Unable to retrieve ..." string, and the status document it read
Returned(b) == [is_str |-> b.is_str, info |-> b.info, status |-> b.status]

NoReturn == [is_str |-> FALSE, info |-> NoInfo, status |-> NoStatus]

Cycle(kind, cause, lr, lc, cr, cc, notes, saves, result) ==
    [kind |-> kind, cause |-> cause, pre_range |-> lr, pre_charge |-> lc,
     cur_range |-> cr, cur_charge |-> cc, notes |-> notes, saves |-> saves, result |-> result]

NoCycle == Cycle("none", "none", None, None, None, None, <<>>, <<>>, FALSE)

\* a comparison that looks at the range alone
HasChanged_RangeOnly(lr, lc, cr, cc) ==
    lr # None /\ lc # None /\ cr # Val(lr)

\* the condition of the if at lines 215-216
HasChanged(lr, lc, cr, cc) ==
    lr # None /\ lc # None /\ (cr # Val(lr) \/ cc # Val(lc))

\* a check_battery that stores and saves only what it notified
StoreAndSave_OnlyOnChange(b, m, t, cr, cc, notes, result) ==
    IF result
    THEN {[st |-> b.st, auth |-> b.auth, reqs |-> b.reqs, got |-> Returned(b),
           last_range |-> Some(cr), last_charge |-> Some(cc),
           file |-> SaveState(m.file, Some(cr), Some(cc), t, s),
           cyc |-> Cycle("reading", "none", m.last_range, m.last_charge, Some(cr), Some(cc),
                         notes, <<Save(Some(cr), Some(cc), t, s)>>, result)]
          : s \in SaveOutcomes}
    ELSE {[st |-> b.st, auth |-> b.auth, reqs |-> b.reqs, got |-> Returned(b),
           last_range |-> m.last_range, last_charge |-> m.last_charge, file |-> m.file,
           cyc |-> Cycle("reading", "none", m.last_range, m.last_charge, Some(cr), Some(cc),
                         notes, <<>>, result)]}

\* a check_battery that calls save_state() before it assigns the new values
StoreAndSave_SaveFirst(b, m, t, cr, cc, notes, result) ==
    {[st |-> b.st, auth |-> b.auth, reqs |-> b.reqs, got |-> Returned(b),
      last_range |-> Some(cr), last_charge |-> Some(cc),
      file |-> SaveState(m.file, m.last_range, m.last_charge, t, s),
      cyc |-> Cycle("reading", "none", m.last_range, m.last_charge, Some(cr), Some(cc),
                    notes, <<Save(m.last_range, m.last_charge, t, s)>>, result)]
     : s \in SaveOutcomes}

\* a check_battery whose cycle reports False when save_state could not write
StoreAndSave_AbortOnSaveFailure(b, m, t, cr, cc, notes, result) ==
    {[st |-> b.st, auth |-> b.auth, reqs |-> b.reqs, got |-> Returned(b),
      last_range |-> Some(cr), last_charge |-> Some(cc),
      file |-> SaveState(m.file, Some(cr), Some(cc), t, s),
      cyc |-> Cycle("reading", "none", m.last_range, m.last_charge, Some(cr), Some(cc),
                    notes, <<Save(Some(cr), Some(cc), t, s)>>, result /\ s = "ok")]
     : s \in SaveOutcomes}

\* a check_battery that stores the range of a reading and forgets its charge
StoreAndSave_ForgetsCharge(b, m, t, cr, cc, notes, result) ==
    {[st |-> b.st, auth |-> b.auth, reqs |-> b.reqs, got |-> Returned(b),
      last_range |-> Some(cr), last_charge |-> m.last_charge,
      file |-> SaveState(m.file, Some(cr), m.last_charge, t, s),
      cyc |-> Cycle("reading", "none", m.last_range, m.last_charge, Some(cr), Some(cc),
                    notes, <<Save(Some(cr), m.last_charge, t, s)>>, result)]
     : s \in SaveOutcomes}

\* a check_battery that keeps the new reading only when it could be saved
StoreAndSave_KeepsOnlyIfSaved(b, m, t, cr, cc, notes, result) ==
    {[st |-> b.st, auth |-> b.auth, reqs |-> b.reqs, got |-> Returned(b),
      last_range |-> IF s = "ok" THEN Some(cr) ELSE m.last_range,
      last_charge |-> IF s = "ok" THEN Some(cc) ELSE m.last_charge,
      file |-> SaveState(m.file, Some(cr), Some(cc), t, s),
      cyc |-> Cycle("reading", "none", m.last_range, m.last_charge, Some(cr), Some(cc),
                    notes, <<Save(Some(cr), Some(cc), t, s)>>, result)]
     : s \in SaveOutcomes}

\* lines 235-240 and 243-247: store the reading, save_state(), return result
StoreAndSave(b, m, t, cr, cc, notes, result) ==
    {[st |-> b.st, auth |-> b.auth, reqs |-> b.reqs, got |-> Returned(b),
      last_range |-> Some(cr), last_charge |-> Some(cc),
      file |-> SaveState(m.file, Some(cr), Some(cc), t, s),
      cyc |-> Cycle("reading", "none", m.last_range, m.last_charge, Some(cr), Some(cc),
                    notes, <<Save(Some(cr), Some(cc), t, s)>>, result)]
     : s \in SaveOutcomes}

\* a check_battery that stores the reading only when the notification was shown
NotifyAndStore_OnlyIfShown(b, m, t, cr, cc, n) ==
    IF ShowNotification(n)
    THEN StoreAndSave(b, m, t, cr, cc,
                      <<Notification(cr, cc, Val(m.last_range), Val(m.last_charge), n)>>, TRUE)
    ELSE {[st |-> b.st, auth |-> b.auth, reqs |-> b.reqs, got |-> Returned(b),
           last_range |-> m.last_range, last_charge |-> m.last_charge, file |-> m.file,
           cyc |-> Cycle("reading", "none", m.last_range, m.last_charge, Some(cr), Some(cc),
                         <<Notification(cr, cc, Val(m.last_range), Val(m.last_charge), n)>>,
                         <<>>, FALSE)]}

\* lines 230-233 then 235-240: show_notification, whose return value is dropped
NotifyAndStore(b, m, t, cr, cc, n) ==
    StoreAndSave(b, m, t, cr, cc,
                 <<Notification(cr, cc, Val(m.last_range), Val(m.last_charge), n)>>, TRUE)

\* lines 213-247: the reading cr, cc against the state m at time t
CompareAndStore(b, m, t, cr, cc) ==
    IF HasChanged(m.last_range, m.last_charge, cr, cc)
    THEN UNION {NotifyAndStore(b, m, t, cr, cc, n) : n \in NotifierOutcomes}
    ELSE StoreAndSave(b, m, t, cr, cc, <<>>, FALSE)

\* a check_battery that forgets its baseline when a cycle fails
LeaveUnchanged_Reset(b, m, kind, cause) ==
    [st |-> b.st, auth |-> b.auth, reqs |-> b.reqs, got |-> Returned(b),
     last_range |-> None, last_charge |-> None, file |-> m.file,
     cyc |-> Cycle(kind, cause, m.last_range, m.last_charge, None, None, <<>>, <<>>, FALSE)]

\* a cycle that leaves at "return False" without a reading
LeaveUnchanged(b, m, kind, cause) ==
    [st |-> b.st, auth |-> b.auth, reqs |-> b.reqs, got |-> Returned(b),
     last_range |-> m.last_range, last_charge |-> m.last_charge, file |-> m.file,
     cyc |-> Cycle(kind, cause, m.last_range, m.last_charge, None, None, <<>>, <<>>, FALSE)]

CheckBatteryOutcome(b, m, t) ==
    IF b.is_str
    THEN {LeaveUnchanged(b, m, "failed", b.cause)}    \* str has no .get: AttributeError, caught at line 249
    ELSE IF b.info.ev_battery_range_miles = None \/ b.info.ev_battery_actual_charge = None
    THEN {LeaveUnchanged(b, m, "noreading", "none")}
    ELSE CompareAndStore(b, m, t,
                         Val(b.info.ev_battery_range_miles),
                         RoundHalfEven(Val(b.info.ev_battery_actual_charge), 10))

\* m: the monitor's last_range, last_charge and file; st: its FordPassAPI
CheckBattery(m, st, t) == UNION {CheckBatteryOutcome(b, m, t) : b \in GetBatteryStatus(st, t)}

----------------------------------------------------------------------------
(* The process: BatteryMonitor.__init__ and BatteryMonitor.run *)

NoCall == [at |-> 0, made |-> FALSE, ret |-> None, raised |-> FALSE, reqs |-> <<>>, sent |-> <<>>,
           battery |-> NoReturn, primary |-> "none"]

\* what get_auth_token did in the cycle with outcome o, started at time t:
\* reqs are the requests of get_auth_token, sent those of the whole cycle,
\* primary the answer of the primary-auth endpoint ("cached", "none": not asked)
Call(o, t) ==
    [at |-> t, made |-> TRUE, ret |-> o.auth.ret, raised |-> o.auth.raised,
     reqs |-> o.auth.reqs, sent |-> o.reqs, battery |-> o.got,
     primary |-> o.auth.primary]

\* the threads that may share one FordPassAPI, none of them inside a call
Callers == 1..NumCallers

NoCaller == [pc |-> "idle", ford |-> None, ret |-> None, raised |-> FALSE, reqs |-> <<>>]

NoCallers == [c \in Callers |-> NoCaller]

\* a process counts the readings it obtained (none, one, more) and remembers
\* the last of them
ProcStart == [readings |-> 0, last_reading |-> <<None, None>>]

CountCycle(p, c) ==
    IF c.kind = "reading"
    THEN [readings |-> IF p.readings < 2 THEN p.readings + 1 ELSE p.readings,
          last_reading |-> <<c.cur_range, c.cur_charge>>]
    ELSE p

\* the state files a process can find at its start
AllInitFiles ==
    {FileAbsent, FileCorrupt}
    \cup {FileRecord(lr, lc, 0) : lr \in {None, Some(62)}, lc \in {None, Some(80)}}

\* A run explores one side of the environment in full and holds the other to
\* a success and a failure: the telemetry, the notifier and the file system
\* (MonitorWorld) or the two auth endpoints and the intervals (AuthWorld).
MonitorWorld ==
    [name |-> "monitor",
     primary |-> {"ok", "http_error"},
     exchange |-> {ExchangeResponse("ok", None), ExchangeResponse("http_error", None)},
     telemetry |-> AllTelemetryResponses,
     notifier |-> AllNotifierOutcomes,
     save |-> AllSaveOutcomes,
     files |-> AllInitFiles,
     intervals |-> {DefaultInterval}]

AuthWorld ==
    [name |-> "auth",
     primary |-> AllPrimaryResponses,
     exchange |-> AllExchangeResponses,
     telemetry |-> {TelemetryResponse("http_error", None, None), TelemetryResponse("ok", Some(1000), Some(805))},
     notifier |-> {"shown"},
     save |-> {"ok"},
     files |-> {FileAbsent},
     intervals |-> Intervals]

Worlds == {MonitorWorld, AuthWorld}

Init ==
    /\ now = 0
    /\ pc = "poll"
    /\ world \in Worlds
    /\ interval \in world.intervals
    /\ ford_token = None
    /\ autonomic_token = None
    /\ token_expiration = 0
    /\ file \in world.files
    /\ last_range = LoadState(file)[1]
    /\ last_charge = LoadState(file)[2]
    /\ cyc = NoCycle
    /\ call = NoCall
    /\ proc = ProcStart
    /\ callers = NoCallers
    /\ interrupted = FALSE

\* a run() whose handler of line 275 is missing: the ValueError leaves the loop
DelayAfterCheck_Escape(iv) == IF iv < 0 THEN "crashed" ELSE "sleep"

\* the delay the loop enters after check_battery returned: time.sleep(interval)
\* raises ValueError on a negative interval, which line 275 catches
DelayAfterCheck(iv) == IF iv < 0 THEN "fault" ELSE "sleep"

\* lines 258-271: one pass of the loop up to its sleep
Poll ==
    /\ pc = "poll"
    /\ \E o \in CheckBattery([last_range |-> last_range, last_charge |-> last_charge, file |-> file],
                             ApiState(ford_token, autonomic_token, token_expiration), now) :
          /\ ford_token' = o.st.ford_token
          /\ autonomic_token' = o.st.autonomic_token
          /\ token_expiration' = o.st.token_expiration
          /\ last_range' = o.last_range
          /\ last_charge' = o.last_charge
          /\ file' = o.file
          /\ cyc' = o.cyc
          /\ call' = Call(o, now)
          /\ proc' = CountCycle(proc, o.cyc)
    /\ pc' = DelayAfterCheck(interval)
    /\ UNCHANGED <<now, interval, world, callers, interrupted>>

\* line 271: time.sleep(self.interval) returns
WakeInterval ==
    /\ pc = "sleep"
    /\ now + interval <= MaxTime
    /\ now' = now + interval
    /\ pc' = "poll"
    /\ UNCHANGED <<interval, world, ford_token, autonomic_token, token_expiration,
                   last_range, last_charge, file, cyc, call, proc, callers, interrupted>>

\* line 278: time.sleep(30) returns
WakeFault ==
    /\ pc = "fault"
    /\ now + FaultDelay <= MaxTime
    /\ now' = now + FaultDelay
    /\ pc' = "poll"
    /\ UNCHANGED <<interval, world, ford_token, autonomic_token, token_expiration,
                   last_range, last_charge, file, cyc, call, proc, callers, interrupted>>

\* KeyboardInterrupt: caught at line 272 inside the try; the sleep of line 278
\* is in the except clause, outside it, so there it leaves run() uncaught
AfterInterrupt(at) == IF at = "fault" THEN "crashed" ELSE "stopped"

Interrupt ==
    /\ pc \in {"poll", "sleep", "fault"}
    /\ pc' = AfterInterrupt(pc)
    /\ interrupted' = TRUE
    /\ UNCHANGED <<now, interval, world, ford_token, autonomic_token, token_expiration,
                   last_range, last_charge, file, cyc, call, proc, callers>>

\* a new process whose __init__ does not call load_state()
Restart_NoLoad ==
    /\ pc \in {"stopped", "crashed"}
    /\ pc' = "poll"
    /\ interval' \in world.intervals
    /\ ford_token' = None
    /\ autonomic_token' = None
    /\ token_expiration' = 0
    /\ last_range' = None
    /\ last_charge' = None
    /\ cyc' = NoCycle
    /\ call' = NoCall
    /\ proc' = ProcStart
    /\ interrupted' = FALSE
    /\ UNCHANGED <<now, file, world, callers>>

\* a new process on the same state file
Restart ==
    /\ pc \in {"stopped", "crashed"}
    /\ pc' = "poll"
    /\ interval' \in world.intervals
    /\ ford_token' = None
    /\ autonomic_token' = None
    /\ token_expiration' = 0
    /\ last_range' = LoadState(file)[1]
    /\ last_charge' = LoadState(file)[2]
    /\ cyc' = NoCycle
    /\ call' = NoCall
    /\ proc' = ProcStart
    /\ interrupted' = FALSE
    /\ UNCHANGED <<now, file, world, callers>>

Next == Poll \/ WakeInterval \/ WakeFault \/ Interrupt \/ Restart

Spec == Init /\ [][Next]_vars

TypeOK ==
    /\ now \in 0..MaxTime
    /\ pc \in {"poll", "sleep", "fault", "stopped", "crashed"}
    /\ interval \in Intervals
    /\ Len(last_range) <= 1 /\ Len(last_charge) <= 1
    /\ Len(ford_token) <= 1 /\ Len(autonomic_token) <= 1
    /\ file.kind \in {"absent", "corrupt", "record"}
    /\ cyc.kind \in {"none", "failed", "noreading", "reading"}
    /\ proc.readings \in 0..2
    /\ \A c \in Callers : callers[c].pc \in {"idle", "primary_wait", "exchange_wait", "done"}

----------------------------------------------------------------------------
(* load_state on its own: every content the state file can have *)

\* a JSON value that is neither null nor an integer: "62", 62.5, true, [62]
Mistyped(type) == <<"mistyped", type>>

\* the values json.load can give a key of the object (None: null or no key)
JsonFieldValues ==
    {None, Some(62), Some(80)}
    \cup {Mistyped(type) : type \in {"str", "float", "bool", "list"}}

\* open() raises; the file is valid JSON but not an object (data.get raises)
FileUnreadable == [kind |-> "unreadable", last_range |-> None, last_charge |-> None, last_update |-> 0]
FileNotObject == [kind |-> "notobject", last_range |-> None, last_charge |-> None, last_update |-> 0]

LoadFiles ==
    {FileAbsent, FileCorrupt, FileUnreadable, FileNotObject}
    \cup {FileRecord(lr, lc, 0) : lr \in JsonFieldValues, lc \in JsonFieldValues}

\* __init__ up to line 96, before load_state()
InitLoad ==
    /\ now = 0
    /\ pc = "init"
    /\ world \in Worlds
    /\ interval \in world.intervals
    /\ ford_token = None
    /\ autonomic_token = None
    /\ token_expiration = 0
    /\ file \in LoadFiles
    /\ last_range = None
    /\ last_charge = None
    /\ cyc = NoCycle
    /\ call = NoCall
    /\ proc = ProcStart
    /\ callers = NoCallers
    /\ interrupted = FALSE

\* line 99: self.load_state()
LoadStep ==
    /\ pc = "init"
    /\ pc' = "poll"
    /\ last_range' = LoadState(file)[1]
    /\ last_charge' = LoadState(file)[2]
    /\ UNCHANGED <<now, interval, world, ford_token, autonomic_token, token_expiration,
                   file, cyc, call, proc, callers, interrupted>>

NextLoad == LoadStep

SpecLoad == InitLoad /\ [][NextLoad]_vars

----------------------------------------------------------------------------
(* get_auth_token called by several threads on one FordPassAPI.  A thread
   can be overtaken by another while it waits in requests.post; the steps
   between two posts are taken in one piece. *)

InitConc ==
    /\ now = 0
    /\ pc = "callers"
    /\ world \in Worlds
    /\ interval \in world.intervals
    /\ ford_token = None
    /\ autonomic_token = None
    /\ token_expiration = 0
    /\ file = FileAbsent
    /\ last_range = None
    /\ last_charge = None
    /\ cyc = NoCycle
    /\ call = NoCall
    /\ proc = ProcStart
    /\ callers = NoCallers
    /\ interrupted = FALSE

Shared == ApiState(ford_token, autonomic_token, token_expiration)

SetShared(st) ==
    /\ ford_token' = st.ford_token
    /\ autonomic_token' = st.autonomic_token
    /\ token_expiration' = st.token_expiration

Returns(th, ret) == [th EXCEPT !.pc = "done", !.ret = ret]
Raises(th) == [th EXCEPT !.pc = "done", !.raised = TRUE]
PostsPrimary(th) ==
    [th EXCEPT !.pc = "primary_wait", !.reqs = Append(th.reqs, Req("primary", None))]
PostsExchange(th, ford) ==
    [th EXCEPT !.pc = "exchange_wait", !.ford = ford, !.reqs = Append(th.reqs, Req("exchange", ford))]

\* lines 77-78, then 39-40, up to the first requests.post
CallStart(c) ==
    /\ callers[c].pc = "idle"
    /\ callers' = [callers EXCEPT ![c] =
          IF AutonomicCached(Shared, now) THEN Returns(callers[c], autonomic_token)
          ELSE IF FordCached(Shared, now) THEN PostsExchange(callers[c], ford_token)
          ELSE PostsPrimary(callers[c])]
    /\ UNCHANGED <<now, pc, interval, world, ford_token, autonomic_token, token_expiration,
                   last_range, last_charge, file, cyc, call, proc, interrupted>>

\* lines 52-73 after the post returned, then 81-103 up to the exchange post
PrimaryRecv(c) ==
    /\ callers[c].pc = "primary_wait"
    /\ \E resp \in PrimaryResponses :
          LET f == FordTokenOutcome(Shared, now, resp)
          IN  /\ SetShared(f.st)
              /\ callers' = [callers EXCEPT ![c] =
                    IF f.raised THEN Raises(callers[c]) ELSE PostsExchange(callers[c], f.ret)]
    /\ UNCHANGED <<now, pc, interval, world,
                   last_range, last_charge, file, cyc, call, proc, interrupted>>

\* lines 105-113 after the exchange post returned
ExchangeRecv(c) ==
    /\ callers[c].pc = "exchange_wait"
    /\ \E resp \in ExchangeResponses :
          LET o == ExchangeOutcome([st |-> Shared, ret |-> callers[c].ford, reqs |-> <<>>, primary |-> "none"],
                                   now, resp)
          IN  /\ SetShared(o.st)
              /\ callers' = [callers EXCEPT ![c] =
                    IF o.raised THEN Raises(callers[c]) ELSE Returns(callers[c], o.ret)]
    /\ UNCHANGED <<now, pc, interval, world,
                   last_range, last_charge, file, cyc, call, proc, interrupted>>

NextConc == \E c \in Callers : CallStart(c) \/ PrimaryRecv(c) \/ ExchangeRecv(c)

SpecConc == InitConc /\ [][NextConc]_vars

----------------------------------------------------------------------------
(* get_auth_token on its own, called once a minute over more than the five
   minutes a primary token is meant to live *)

InitAuth ==
    /\ now = 0
    /\ pc = "auth"
    /\ world = AuthWorld
    /\ interval = DefaultInterval
    /\ ford_token = None
    /\ autonomic_token = None
    /\ token_expiration = 0
    /\ file = FileAbsent
    /\ last_range = None
    /\ last_charge = None
    /\ cyc = NoCycle
    /\ call = NoCall
    /\ proc = ProcStart
    /\ callers = NoCallers
    /\ interrupted = FALSE

\* what the get_auth_token with outcome a, called at time t, did
AuthCallOf(a, t) ==
    [NoCall EXCEPT !.at = t, !.made = TRUE, !.ret = a.ret, !.raised = a.raised,
                   !.reqs = a.reqs, !.sent = a.reqs, !.primary = a.primary]

\* lines 115-117: one call of get_auth_token
AuthCall ==
    /\ pc = "auth"
    /\ \E a \in GetAuthToken(Shared, now) :
          /\ SetShared(a.st)
          /\ call' = AuthCallOf(a, now)
    /\ pc' = "wait"
    /\ UNCHANGED <<now, interval, world, last_range, last_charge, file, cyc, proc, callers,
                   interrupted>>

\* the caller comes back a minute later
AuthWait ==
    /\ pc = "wait"
    /\ now + interval <= MaxAuthTime
    /\ now' = now + interval
    /\ pc' = "auth"
    /\ UNCHANGED <<interval, world, ford_token, autonomic_token, token_expiration,
                   last_range, last_charge, file, cyc, call, proc, callers, interrupted>>

NextAuth == AuthCall \/ AuthWait

SpecAuth == InitAuth /\ [][NextAuth]_vars

----------------------------------------------------------------------------
(* One poll over every raw range from 0.0 km to MaxRangeKm10 tenths of a km,
   everything else succeeding *)

RangeWorld ==
    [name |-> "range",
     primary |-> {"ok"},
     exchange |-> {ExchangeResponse("ok", None)},
     telemetry |-> {TelemetryResponse("ok", Some(r), Some(805)) : r \in 0..MaxRangeKm10},
     notifier |-> {"shown"},
     save |-> {"ok"},
     files |-> {FileAbsent},
     intervals |-> {DefaultInterval}]

InitRange ==
    /\ now = 0
    /\ pc = "poll"
    /\ world = RangeWorld
    /\ interval \in world.intervals
    /\ ford_token = None
    /\ autonomic_token = None
    /\ token_expiration = 0
    /\ file \in world.files
    /\ last_range = LoadState(file)[1]
    /\ last_charge = LoadState(file)[2]
    /\ cyc = NoCycle
    /\ call = NoCall
    /\ proc = ProcStart
    /\ callers = NoCallers
    /\ interrupted = FALSE

NextRange == Poll

SpecRange == InitRange /\ [][NextRange]_vars

----------------------------------------------------------------------------
(* The loop left alone by the user, with endpoints that fail in every way
   until, at some moment, they start to succeed for good *)

FailingWorld ==
    [name |-> "failing",
     primary |-> {"ok", "http_error"},
     exchange |-> {ExchangeResponse("ok", Some(90)), ExchangeResponse("ok_no_token", None),
                   ExchangeResponse("http_error", None)},
     telemetry |-> {TelemetryResponse("http_error", None, None),
                    TelemetryResponse("malformed", None, None),
                    TelemetryResponse("ok", Some(1000), None),
                    TelemetryResponse("ok", Some(1000), Some(805)),
                    TelemetryResponse("ok", Some(1020), Some(815))},
     notifier |-> {"error"},
     save |-> {"ok", "write_fail"},
     files |-> {FileCorrupt, FileRecord(Some(62), Some(80), 0)},
     intervals |-> Intervals]

\* the auth endpoints answer with tokens and the telemetry endpoint with a
\* status document that has both metrics; the disk and the notifier stay as
\* they were
HealedWorld ==
    [FailingWorld EXCEPT
        !.name = "healed",
        !.primary = {"ok"},
        !.exchange = {ExchangeResponse("ok", Some(90))},
        !.telemetry = {TelemetryResponse("ok", Some(1000), Some(805)),
                       TelemetryResponse("ok", Some(1020), Some(815))}]

InitLive ==
    /\ now = 0
    /\ pc = "poll"
    /\ world = FailingWorld
    /\ interval \in world.intervals
    /\ ford_token = None
    /\ autonomic_token = None
    /\ token_expiration = 0
    /\ file \in world.files
    /\ last_range = LoadState(file)[1]
    /\ last_charge = LoadState(file)[2]
    /\ cyc = NoCycle
    /\ call = NoCall
    /\ proc = ProcStart
    /\ callers = NoCallers
    /\ interrupted = FALSE

\* from now on the endpoints succeed; the history of the cycles starts anew,
\* and there is time left for the sleep in progress to end
Heal ==
    /\ world = FailingWorld
    /\ now + DefaultInterval <= MaxLiveTime
    /\ world' = HealedWorld
    /\ cyc' = NoCycle
    /\ call' = NoCall
    /\ UNCHANGED <<now, pc, interval, ford_token, autonomic_token, token_expiration,
                   last_range, last_charge, file, proc, callers, interrupted>>

\* the two sleeps of run(), within the time this specification spans
LiveWakeInterval == now + interval <= MaxLiveTime /\ WakeInterval
LiveWakeFault == now + FaultDelay <= MaxLiveTime /\ WakeFault

NextLive == Poll \/ LiveWakeInterval \/ LiveWakeFault \/ Heal

\* the loop of run() goes on: a poll that can start starts, a sleep ends
SpecLive ==
    /\ InitLive
    /\ [][NextLive]_vars
    /\ WF_vars(Poll)
    /\ WF_vars(LiveWakeInterval)
    /\ WF_vars(LiveWakeFault)

----------------------------------------------------------------------------
(* Properties *)

\* a step of Poll: check_battery ran and the loop went on to a sleep
PollStep == pc = "poll" /\ pc' \in {"sleep", "fault"}

\* the last cycle obtained a reading that differs from what the monitor held
ReadingDiffers ==
    /\ cyc.kind = "reading"
    /\ cyc.pre_range # None
    /\ cyc.pre_charge # None
    /\ (cyc.cur_range # cyc.pre_range \/ cyc.cur_charge # cyc.pre_charge)

\* C1: in every poll cycle show_notification is invoked (once) if and only if
\* last_range and last_charge were both present at the start of the cycle and
\* the rounded reading differs from them in range or in charge; a failed
\* cycle, a cycle without a reading, a first observation and an identical
\* reading invoke no notification.
C1_NotifyIffChanged ==
    cyc.kind # "none" =>
        /\ Len(cyc.notes) <= 1
        /\ (cyc.notes # <<>>) <=> ReadingDiffers

\* C1 witness: the charge alone differs and a notification was invoked
C1_Witness ==
    /\ cyc.kind = "reading"
    /\ cyc.pre_range = cyc.cur_range
    /\ cyc.pre_charge # None
    /\ cyc.pre_charge # cyc.cur_charge
    /\ Len(cyc.notes) = 1

\* C2: when last_range or last_charge is absent at the start of a poll that
\* obtains a reading, that poll invokes no notification, returns False, and
\* leaves last_range and last_charge equal to the rounded reading.
C2_FirstReadingIsBaseline ==
    (cyc.kind = "reading" /\ (cyc.pre_range = None \/ cyc.pre_charge = None)) =>
        /\ cyc.notes = <<>>
        /\ cyc.result = FALSE
        /\ last_range = cyc.cur_range
        /\ last_charge = cyc.cur_charge
        /\ last_range # None
        /\ last_charge # None

\* C2 witness: the first reading of a monitor that started with nothing
C2_Witness ==
    /\ cyc.kind = "reading"
    /\ cyc.pre_range = None
    /\ cyc.pre_charge = None
    /\ last_range = Some(62)
    /\ last_charge = Some(82)
    /\ pc = "sleep"

\* C3: after every poll cycle that obtains a reading, notified or not,
\* last_range and last_charge equal the reading and save_state was invoked
\* exactly once in the cycle, with those values and the time of the cycle as
\* last_update; when that save completed, the file holds that record.
C3_ReadingStoredAndSaved ==
    cyc.kind = "reading" =>
        /\ last_range = cyc.cur_range
        /\ last_charge = cyc.cur_charge
        /\ Len(cyc.saves) = 1
        /\ cyc.saves[1].last_range = cyc.cur_range
        /\ cyc.saves[1].last_charge = cyc.cur_charge
        /\ cyc.saves[1].last_update = call.at
        /\ cyc.saves[1].outcome = "ok" => file = FileRecord(cyc.cur_range, cyc.cur_charge, call.at)

\* C3 witness: a cycle without notification, on an identical reading, saved at a later time
C3_Witness ==
    /\ cyc.kind = "reading"
    /\ cyc.notes = <<>>
    /\ cyc.pre_range = cyc.cur_range
    /\ cyc.pre_charge = cyc.cur_charge
    /\ Len(cyc.saves) = 1
    /\ file.kind = "record"
    /\ file.last_update > 0

\* C4: in a cycle that invoked the notification, whatever the notifier did
\* (shown, not shown, raised inside show_notification), last_range and
\* last_charge are the new reading, save_state was invoked once with it, and
\* check_battery returned True.
C4_NotifierOutcomeIgnored ==
    (cyc.kind = "reading" /\ cyc.notes # <<>>) =>
        /\ cyc.notes[1].outcome \in AllNotifierOutcomes
        /\ cyc.result = TRUE
        /\ last_range = cyc.cur_range
        /\ last_charge = cyc.cur_charge
        /\ Len(cyc.saves) = 1
        /\ cyc.saves[1].last_range = cyc.cur_range
        /\ cyc.saves[1].last_charge = cyc.cur_charge

\* C4 witness: the notifier failed internally and the reading was stored
C4_Witness ==
    /\ cyc.kind = "reading"
    /\ Len(cyc.notes) = 1
    /\ cyc.notes[1].outcome = "error"
    /\ ~cyc.notes[1].returned
    /\ last_range = cyc.cur_range
    /\ cyc.pre_range # cyc.cur_range

\* C5: a poll cycle in which token acquisition or the telemetry fetch fails
\* changes neither last_range and last_charge nor the state file, and invokes
\* neither the notification nor save_state.
C5_FailedCycleChangesNothing ==
    [][(PollStep /\ cyc'.kind = "failed") =>
            /\ last_range' = last_range
            /\ last_charge' = last_charge
            /\ file' = file
            /\ cyc'.notes = <<>>
            /\ cyc'.saves = <<>>
            /\ cyc'.result = FALSE]_vars

\* C5 witness: the telemetry endpoint answered non-200 (401) while a baseline was held
C5_Witness ==
    /\ cyc.kind = "failed"
    /\ cyc.cause = "http_error"
    /\ last_range # None
    /\ last_charge # None
    /\ file.kind = "record"
    /\ file.last_update > 0

\* C6 (as claimed): after a poll cycle that failed, the loop is in the
\* 30-second fault-recovery sleep, never in the sleep of the configured interval.
C6_FailedCycleSleepsFaultDelay ==
    (cyc.kind = "failed" /\ pc \in {"sleep", "fault"}) => pc = "fault"

\* C7: the loop is stopped only after a KeyboardInterrupt was delivered; no
\* auth, transport, decode, notifier or persistence failure takes run() out
\* of its loop.
C7_StopsOnlyOnInterrupt ==
    pc \in {"stopped", "crashed"} => interrupted

\* C7 witness: a failed cycle went through the handler of line 275 and the loop polls again
C7_Witness ==
    /\ cyc.kind = "failed"
    /\ pc = "poll"
    /\ interval < 0
    /\ now >= FaultDelay
    /\ ~interrupted

\* C8: a get_auth_token called while an exchange token is cached, before that
\* token's own expiresAt, returns that token, sends no request and leaves the
\* cache as it was.
C8_CacheHitSendsNothing ==
    [][(PollStep /\ autonomic_token # None /\ now < Val(autonomic_token).exp) =>
            /\ call'.made
            /\ ~call'.raised
            /\ call'.ret = autonomic_token
            /\ call'.reqs = <<>>
            /\ autonomic_token' = autonomic_token
            /\ ford_token' = ford_token
            /\ token_expiration' = token_expiration]_vars

\* C8 witness: a second call, later than the exchange, answered from the cache
C8_Witness ==
    /\ call.made
    /\ call.reqs = <<>>
    /\ call.ret # None
    /\ call.ret = autonomic_token
    /\ Val(call.ret).at < call.at
    /\ call.at < Val(call.ret).exp

\* C9 (as claimed): a get_auth_token called at or after the cached exchange
\* token's own expiresAt sends a primary-auth request first, then (unless the
\* primary auth failed) one exchange request carrying the primary token just
\* obtained, and unless it fails it returns the token of that exchange.
\* Stated for the calls that find a primary token cached beside the expired
\* exchange token.
C9_ExpiredTokenIsRefreshed ==
    [][(/\ PollStep
        /\ autonomic_token # None
        /\ ford_token # None
        /\ now >= Val(autonomic_token).exp) =>
            /\ Len(call'.reqs) \in {1, 2}
            /\ call'.reqs[1].kind = "primary"
            /\ Len(call'.reqs) = 2 =>
                  /\ call'.reqs[2].kind = "exchange"
                  /\ call'.reqs[2].tok = ford_token'
            /\ ~call'.raised =>
                  /\ Len(call'.reqs) = 2
                  /\ call'.ret = autonomic_token'
                  /\ call'.ret # autonomic_token]_vars

\* C10 (as claimed): every exchange token get_auth_token returns is returned
\* strictly before that token's own expiresAt (the time of its exchange plus
\* expires_in minus 60).  Stated for the tokens exchanged for a present
\* primary token, returned while a primary token is cached.
C10_ReturnedBeforeOwnExpiry ==
    (/\ call.made
     /\ ~call.raised
     /\ call.ret # None
     /\ Val(call.ret).sub # None
     /\ ford_token # None) =>
        call.at < Val(call.ret).exp

\* C11 (as claimed): a get_auth_token that does not fail returns a present
\* token, and no telemetry request is sent with an absent bearer token.
\* Stated for the calls that leave a primary token cached.
C11_TokenReturnedIsPresent ==
    (call.made /\ ford_token # None) =>
        /\ ~call.raised => call.ret # None
        /\ \A i \in 1..Len(call.sent) :
              call.sent[i].kind = "telemetry" => call.sent[i].tok # None

\* the cycle's token acquisition or its telemetry fetch failed
FetchFailed ==
    /\ call.made
    /\ \/ call.raised
       \/ call.battery.status.kind \in {"http_error", "transport"}

\* C12 (as claimed): when token acquisition or the telemetry fetch fails
\* during get_battery_status, the failure is not converted into a normally
\* returned value: get_battery_status does not return its "Unable to
\* retrieve ..." string to check_battery.
C12_FetchFailureEscalates ==
    FetchFailed => ~call.battery.is_str

\* C13 (as claimed): the file at the state path is absent or holds one
\* complete record at every instant: no step of the monitor turns an absent
\* or complete file into a truncated or half-written one.
C13_FileAbsentOrComplete ==
    [][file.kind \in {"absent", "record"} => file'.kind \in {"absent", "record"}]_vars

\* the clauses of message n about a field
ClausesOf(n, field) == {i \in 1..Len(n.changes) : n.changes[i].field = field}

\* message n tells the move of a field from old to new correctly: no clause
\* when they are equal, else one clause with the direction and the magnitude
TellsChange(n, field, unit, new, old) ==
    IF new = old
    THEN ClausesOf(n, field) = {}
    ELSE \E i \in 1..Len(n.changes) :
            /\ ClausesOf(n, field) = {i}
            /\ n.changes[i].unit = unit
            /\ new > old => n.changes[i].direction = "increased" /\ n.changes[i].amount = new - old
            /\ new < old => n.changes[i].direction = "decreased" /\ n.changes[i].amount = old - new

\* C15: in a Changed cycle the notification message has, for each of range
\* and charge that differs from the prior value and for no unchanged field, a
\* clause with direction 'increased' when new > old, 'decreased' when
\* new < old, and magnitude |new - old|; prior 250/80 and new 245/82 gives
\* 'Range has decreased by 5 miles' and 'Charge has increased by 2%'.
C15_MessageNamesEachChange ==
    /\ cyc.notes # <<>> =>
          /\ TellsChange(cyc.notes[1], "Range", " miles", Val(cyc.cur_range), Val(cyc.pre_range))
          /\ TellsChange(cyc.notes[1], "Charge", "%", Val(cyc.cur_charge), Val(cyc.pre_charge))
          /\ \A i \in 1..Len(cyc.notes[1].changes) :
                cyc.notes[1].changes[i].field \in {"Range", "Charge"}
    /\ ChangeMessage(245, 82, 250, 80) =
          << [field |-> "Range", direction |-> "decreased", amount |-> 5, unit |-> " miles"],
             [field |-> "Charge", direction |-> "increased", amount |-> 2, unit |-> "%"] >>

\* a Changed cycle whose message has a 'decreased' and an 'increased' clause
C15_Witness ==
    /\ cyc.kind = "reading"
    /\ Len(cyc.notes) = 1
    /\ Len(cyc.notes[1].changes) = 2
    /\ cyc.notes[1].changes[1].direction = "decreased"
    /\ cyc.notes[1].changes[2].direction = "increased"

\* C20: a failure to write the state file is swallowed.  Every cycle that
\* obtains a reading attempts one save of that reading (so a failed save is
\* attempted again in the next such cycle), and when the save fails the
\* cycle is not aborted (the loop goes on to its sleep), it reports Changed
\* exactly when the reading differs from a present prior state, and
\* last_range and last_charge hold the new reading.
C20_SaveFailureSwallowed ==
    [][(PollStep /\ cyc'.kind = "reading") =>
          /\ Len(cyc'.saves) = 1
          /\ cyc'.saves[1].last_range = cyc'.cur_range
          /\ cyc'.saves[1].last_charge = cyc'.cur_charge
          /\ cyc'.saves[1].outcome # "ok" =>
                /\ pc' = "sleep"
                /\ cyc'.result = (/\ last_range # None
                                  /\ last_charge # None
                                  /\ (cyc'.cur_range # last_range \/ cyc'.cur_charge # last_charge))
                /\ last_range' = cyc'.cur_range
                /\ last_charge' = cyc'.cur_charge]_vars

\* a Changed cycle whose save failed half-way, in a process that already had
\* a reading: memory holds the new reading, the file does not
C20_Witness ==
    /\ cyc.kind = "reading"
    /\ Len(cyc.saves) = 1
    /\ cyc.saves[1].outcome = "write_fail"
    /\ cyc.result
    /\ last_range = cyc.cur_range
    /\ file.kind = "corrupt"
    /\ proc.readings = 2
    /\ pc = "sleep"

\* C18 (as claimed): for every fetched status document get_battery_status
\* does not fail, and each projected field whose metric is missing carries
\* the 'not available' marker rather than a numeric value, including
\* ev_battery_range_miles when xevBatteryRange is missing.
C18_MissingMetricIsMarked ==
    (call.made /\ call.battery.status.kind = "ok") =>
        /\ ~call.battery.is_str
        /\ call.battery.status.charge10 = None =>
              call.battery.info.ev_battery_actual_charge = None
        /\ call.battery.status.range_km10 = None =>
              /\ call.battery.info.ev_battery_range_km = None
              /\ call.battery.info.ev_battery_range_miles = None

PersistedReading ==
    file.kind = "record" /\ file.last_range # None /\ file.last_charge # None

\* C16: change detection spans process restarts.  When a process starts on a
\* state file that holds a persisted reading with both fields present, its
\* first poll that obtains a reading fires a notification exactly when that
\* reading differs from the persisted one, and the message tells the change
\* of each field against the persisted values.
C16_ChangeDetectedAcrossRestart ==
    [][(/\ PollStep
        /\ proc.readings = 0
        /\ PersistedReading
        /\ cyc'.kind = "reading") =>
            /\ (cyc'.notes # <<>>) =
                  (cyc'.cur_range # file.last_range \/ cyc'.cur_charge # file.last_charge)
            /\ cyc'.notes # <<>> =>
                  /\ Len(cyc'.notes) = 1
                  /\ TellsChange(cyc'.notes[1], "Range", " miles",
                                 Val(cyc'.cur_range), Val(file.last_range))
                  /\ TellsChange(cyc'.notes[1], "Charge", "%",
                                 Val(cyc'.cur_charge), Val(file.last_charge))]_vars

\* the first reading of a restarted process (the record of 63 miles and 82 %
\* was written by the process before it) notifies a decrease of both
C16_Witness ==
    /\ proc.readings = 1
    /\ cyc.kind = "reading"
    /\ cyc.pre_range = Some(63)
    /\ cyc.pre_charge = Some(82)
    /\ Len(cyc.notes) = 1
    /\ Len(cyc.notes[1].changes) = 2
    /\ cyc.notes[1].changes[1].direction = "decreased"
    /\ cyc.notes[1].changes[2].direction = "decreased"

\* a field of a MonitorState record is an integer or absent
ValidField(v) == v = None \/ (Len(v) = 1 /\ v[1] \in Int)

\* the file holds a valid MonitorState record
ValidRecord(f) == f.kind = "record" /\ ValidField(f.last_range) /\ ValidField(f.last_charge)

\* C14 (as claimed): after load_state the monitor has last_range and
\* last_charge both absent when the state file is absent, unreadable or not a
\* valid MonitorState record, and equal to the recorded values when the file
\* holds a valid record.
C14_LoadGivesRecordOrBaseline ==
    pc = "poll" =>
        IF ValidRecord(file)
        THEN last_range = file.last_range /\ last_charge = file.last_charge
        ELSE last_range = None /\ last_charge = None

\* the callers whose refresh is in flight: waiting for the primary-auth or
\* the token-exchange endpoint
Refreshing == {c \in Callers : callers[c].pc \in {"primary_wait", "exchange_wait"}}

\* C17 (as claimed): when callers invoke get_auth_token concurrently on one
\* shared FordPassAPI while no valid exchange token is cached, at most one
\* refresh (primary auth plus exchange) is in flight at any time.
C17_OneRefreshInFlight ==
    Cardinality(Refreshing) <= 1

\* C21: if the primary-auth request answers with a non-200 HTTP status, or
\* with HTTP 200 and an embedded status other than 200, get_auth_token fails,
\* no token-exchange request (and no other request) is sent in that call, and
\* ford_token, autonomic_token and token_expiration are left unchanged.
C21_PrimaryRefusalChangesNothing ==
    [][(PollStep /\ call'.primary \in {"http_error", "app_error"}) =>
          /\ call'.raised
          /\ call'.reqs = <<Req("primary", None)>>
          /\ call'.sent = call'.reqs
          /\ UNCHANGED <<ford_token, autonomic_token, token_expiration>>]_vars

\* a refused primary auth of a call that found both tokens cached but expired
C21_Witness ==
    /\ call.made
    /\ call.primary = "app_error"
    /\ call.raised
    /\ ford_token # None
    /\ autonomic_token # None
    /\ call.at >= token_expiration

\* C22 (as claimed): a primary token is reused without a new primary-auth
\* request only within 300 seconds of the time it was obtained: no
\* token-exchange request carries as subject_token a primary token obtained
\* more than 5 minutes earlier.
C22_PrimaryTokenReusedWithinValidity ==
    \A i \in 1..Len(call.reqs) :
        (call.reqs[i].kind = "exchange" /\ call.reqs[i].tok # None) =>
            call.at - Val(call.reqs[i].tok).at <= FordTokenValidity

\* the telemetry requests of the last cycle
TelemetryRequests == {i \in 1..Len(call.sent) : call.sent[i].kind = "telemetry"}

\* C23: every telemetry GET issued by get_vehicle_status is preceded, within
\* the same call, by a get_auth_token that did not fail and carries exactly
\* the token that call returned as its bearer credential; if the token
\* acquisition fails, no telemetry request is issued in that call.
C23_TelemetryCarriesReturnedToken ==
    call.made =>
        /\ call.raised => TelemetryRequests = {}
        /\ ~call.raised =>
              /\ TelemetryRequests = {Len(call.sent)}
              /\ call.sent[Len(call.sent)].tok = call.ret
              /\ SubSeq(call.sent, 1, Len(call.sent) - 1) = call.reqs

\* a cycle that refreshed both tokens and then sent the GET with the new one
C23_Witness ==
    /\ call.made
    /\ ~call.raised
    /\ call.ret # None
    /\ Len(call.reqs) = 2
    /\ Len(call.sent) = 3
    /\ call.sent[3] = Req("telemetry", call.ret)

\* C24 (as claimed): a user interrupt delivered at any suspension point of
\* the monitor loop (the HTTP calls of a poll, the interval sleep, the
\* 30-second fault-recovery sleep) is handled by the loop's cancellation
\* path: once interrupted the loop has stopped cleanly.
C24_InterruptStopsCleanly ==
    interrupted => pc = "stopped"

\* miles is an integer nearest to km10 tenths of a kilometre times 0.621371
NearestMiles(miles, km10) ==
    LET d == km10 * KmToMilesMicro - miles * 10 * 1000000
    IN  0 - 5 * 1000000 <= d /\ d <= 5 * 1000000

\* C25: the range in miles of a battery reading is the kilometre range
\* multiplied by 0.621371 and rounded to the nearest integer, both as
\* get_battery_status reports it and as check_battery reads it; a raw range
\* of 100.0 km yields 62 miles.
C25_RangeMilesIsNearest ==
    (cyc.kind = "reading" /\ call.battery.status.range_km10 # None) =>
        /\ NearestMiles(Val(cyc.cur_range), Val(call.battery.status.range_km10))
        /\ call.battery.info.ev_battery_range_miles = cyc.cur_range
        /\ call.battery.status.range_km10 = Some(1000) => cyc.cur_range = Some(62)

\* the reading of a raw range of 100.0 km
C25_Witness ==
    /\ cyc.kind = "reading"
    /\ call.battery.status.range_km10 = Some(1000)
    /\ cyc.cur_range = Some(62)
    /\ last_range = Some(62)

\* C26 (as claimed): a refresh attempt that fails at the token-exchange stage
\* after its primary-auth stage succeeded leaves the cached exchange token
\* and the expiry against which that token is checked unchanged.  Stated for
\* the attempts that find an exchange token cached.
C26_FailedExchangeKeepsCache ==
    [][(/\ PollStep
        /\ autonomic_token # None
        /\ call'.primary = "ok"
        /\ call'.raised) =>
            UNCHANGED <<autonomic_token, token_expiration>>]_vars

\* the last cycle sent its telemetry GET with a present token and the GET was
\* rejected (non-200) or failed in transport
FetchRejected ==
    /\ call.made
    /\ ~call.raised
    /\ call.ret # None
    /\ call.battery.status.kind \in {"http_error", "transport"}

\* C27: a telemetry fetch that is rejected or fails in transport leaves
\* ford_token, autonomic_token and token_expiration unchanged (as
\* get_auth_token left them: the token it returned stays cached, and a cycle
\* served from the cache changes none of the three), and every following
\* cycle before token_expiration presents the same token again without
\* contacting the auth endpoints.
C27_RejectedFetchKeepsTokens ==
    [][PollStep =>
          /\ (FetchRejected' /\ call'.reqs = <<>>) =>
                UNCHANGED <<ford_token, autonomic_token, token_expiration>>
          /\ FetchRejected' => autonomic_token' = call'.ret
          /\ (FetchRejected /\ now < token_expiration) =>
                /\ call'.reqs = <<>>
                /\ call'.ret = call.ret
                /\ call'.sent = <<Req("telemetry", call.ret)>>]_vars

\* a cycle served from the token cache whose GET was rejected
C27_Witness ==
    /\ FetchRejected
    /\ call.at > 0
    /\ call.reqs = <<>>
    /\ call.sent = <<Req("telemetry", autonomic_token)>>
    /\ call.battery.status.kind = "http_error"
    /\ call.at < token_expiration

\* C28: within one process run, once a poll has obtained a reading,
\* last_range and last_charge are both present in every later state; hence
\* every successful poll after the first one of the run fires a notification
\* exactly when its reading differs from the previous successful reading.
C28_BaselineOnlyOnce ==
    [][/\ proc'.readings >= 1 => (last_range' # None /\ last_charge' # None)
       /\ (PollStep /\ proc.readings >= 1 /\ cyc'.kind = "reading") =>
             (cyc'.notes # <<>>) = (<<cyc'.cur_range, cyc'.cur_charge>> # proc.last_reading)]_vars

\* the third or a later reading of a run, equal to the one before it only in
\* its charge, is notified; a failed cycle may lie between the two
C28_Witness ==
    /\ proc.readings = 2
    /\ cyc.kind = "reading"
    /\ Len(cyc.notes) = 1
    /\ cyc.cur_range # cyc.pre_range
    /\ cyc.cur_charge = cyc.pre_charge
    /\ last_range = cyc.cur_range

\* the save_state of the last cycle completed successfully
SavedOk ==
    cyc.kind = "reading" /\ Len(cyc.saves) = 1 /\ cyc.saves[1].outcome = "ok"

\* C29: save/load round trip.  After any cycle whose save_state completed
\* successfully the last_range and last_charge stored in the state file equal
\* the in-memory values, a load_state of that file yields exactly those two
\* values, and a new process started on it has them.
C29_SaveLoadRoundTrip ==
    [][/\ SavedOk' =>
             /\ file'.kind = "record"
             /\ file'.last_range = last_range'
             /\ file'.last_charge = last_charge'
             /\ LoadState(file') = <<last_range', last_charge'>>
       /\ (SavedOk /\ pc \in {"stopped", "crashed"} /\ pc' = "poll") =>
             UNCHANGED <<last_range, last_charge>>]_vars

\* the first reading of a process that loaded 63 miles, which only an earlier
\* process of the run can have saved, itself saved successfully
C29_Witness ==
    /\ SavedOk
    /\ proc.readings = 1
    /\ cyc.pre_range = Some(63)
    /\ cyc.pre_charge = Some(82)
    /\ file.last_range = last_range
    /\ file.last_update > 0

\* the endpoints succeed from now on
Healed == world.name = "healed"

\* a cycle completed since then obtained a reading, and last_range and
\* last_charge are that reading
Recovered ==
    /\ Healed
    /\ cyc.kind = "reading"
    /\ last_range = cyc.cur_range
    /\ last_charge = cyc.cur_charge
    /\ cyc.cur_range = call.battery.info.ev_battery_range_miles

====
